---- MODULE Spec2Model ----
(***************************************************************************)
(* Model of script.py: a sampling pass reads state.json from the remote    *)
(* record store, polls the CVMFS stratum-1 hosts for every FQRN, appends    *)
(* one entry, writes the record back and plots the lag per FQRN.  Several   *)
(* passes (independent CI runs) race on the one stored record.              *)
(***************************************************************************)
EXTENDS Integers, Sequences, FiniteSets, TLC

\* ---------------------------------------------------------------- bounds
NumPasses == 2
MaxInitLen == 2
MaxClock == 2
MaxLines == 3
MaxRecLen == 2

Passes == 1..NumPasses

\* ------------------------------------------------------ program constants
NoSha == 0

fqrns == <<"singularity", "eic">>

host_bases ==
  << [scheme |-> "http", host |-> "cvmfs-egi.gridpp.rl.ac.uk", port |-> 8000, path |-> "cvmfs"],
     [scheme |-> "http", host |-> "klei.nikhef.nl", port |-> 8000, path |-> "cvmfs"],
     [scheme |-> "http", host |-> "cvmfs-s1bnl.opensciencegrid.org", port |-> 8000, path |-> "cvmfs"],
     [scheme |-> "http", host |-> "cvmfs-s1fnal.opensciencegrid.org", port |-> 8000, path |-> "cvmfs"],
     [scheme |-> "http", host |-> "cvmfsrep.grid.sinica.edu.tw", port |-> 8000, path |-> "cvmfs"],
     [scheme |-> "http", host |-> "cvmfs-stratum-one.ihep.ac.cn", port |-> 8000, path |-> "cvmfs"] >>

\* host_base.split("://")[0]: the scheme in place of the host
host_name_scheme(host_base) == host_base.scheme

\* host_base.split("://")[1].split(":")[0]
host_name(host_base) == host_base.host

\* ------------------------------------------------------------ text values
\* A Python str is modelled by whether int() accepts it and, if so, its value.
Digits(n) == [isint |-> TRUE, n |-> n]
Junk == [isint |-> FALSE, n |-> 0]

\* str(int(...)) of line 178
str(n) == Digits(n)

\* int(s): raises ValueError unless s is an integer literal
int(s) == IF s.isint THEN [ok |-> TRUE, val |-> s.n] ELSE [ok |-> FALSE, val |-> 0]

\* ------------------------------------------------------------ JSON values
EmptyList == [kind |-> "list", items |-> << >>]
JsonDict == [kind |-> "dict", items |-> << >>]

\* a dict d with d[k] = v added or replaced
Put(d, k, v) == [x \in (DOMAIN d) \cup {k} |-> IF x = k THEN v ELSE d[x]]

EmptyDict == [x \in {} |-> 0]

\* json.dumps(data, indent=2), base64-encoded into the request payload
json_dumps(data) == [kind |-> "json", val |-> data]

\* json.loads(content): raises on text that is not JSON
json_loads(content) ==
  IF content.kind = "json" THEN [ok |-> TRUE, val |-> content.val]
  ELSE [ok |-> FALSE, val |-> EmptyList]

\* ----------------------------------------------------- remote record store
\* The stored file: absent, text that is not JSON, or JSON text.
Absent == [kind |-> "absent", val |-> EmptyList]
Garbage == [kind |-> "garbage", val |-> EmptyList]

\* Entries found in a record that earlier runs or other writers left behind:
\* a well-formed one and one whose "timestamp" is not an integer literal.
HistEntries ==
  { [timestamp |-> Digits(0), fqrns |-> ("eic" :> ("klei.nikhef.nl" :> Digits(0)))],
    [timestamp |-> Junk, fqrns |-> ("eic" :> ("klei.nikhef.nl" :> Digits(0)))] }

InitLists == UNION { [1..n -> HistEntries] : n \in 0..MaxInitLen }

InitStores ==
  {Absent, Garbage, json_dumps(JsonDict)}
    \cup { json_dumps([kind |-> "list", items |-> s]) : s \in InitLists }

\* Entries of the stored record; the empty sequence when it holds no list.
Items(st) == IF st.kind = "json" /\ st.val.kind = "list" THEN st.val.items ELSE << >>

IsPrefix(s, t) == Len(s) <= Len(t) /\ SubSeq(t, 1, Len(s)) = s

\* GET contents/{path}?ref=branch: 200 with content and blob sha, 404 when the
\* file does not exist, or a failure of the store (5xx, transport error).
GetResponses(st, ver) ==
  { [status |-> 500, content |-> Absent, sha |-> NoSha] }
    \cup IF st.kind = "absent"
         THEN { [status |-> 404, content |-> Absent, sha |-> NoSha] }
         ELSE { [status |-> 200, content |-> st, sha |-> ver] }

\* PUT contents/{path}: compare-and-swap on the version token.  A request whose
\* sha is the stored version replaces the file (200); a request without sha
\* creates the file when there is none (201) and is refused when there is one
\* (422); a stale sha is refused (409); the store may also fail (5xx) without
\* committing.  Every commit changes the version.
StorePut(st, ver, content, token) ==
  { [status |-> 500, store |-> st, version |-> ver] }
    \cup IF st.kind = "absent"
         THEN IF token = NoSha
              THEN { [status |-> 201, store |-> content, version |-> ver + 1] }
              ELSE { [status |-> 404, store |-> st, version |-> ver] }
         ELSE IF token = ver
              THEN { [status |-> 200, store |-> content, version |-> ver + 1] }
              ELSE IF token = NoSha
                   THEN { [status |-> 422, store |-> st, version |-> ver] }
                   ELSE { [status |-> 409, store |-> st, version |-> ver] }

\* -------------------------------------------------- get_repo_info / token
\* The workflow that runs a pass provides both environment variables.
EnvSettings == { [GITHUB_REPOSITORY |-> "owner/name", GITHUB_TOKEN |-> "token"] }

get_repo_info(env) ==
  IF env.GITHUB_REPOSITORY = "" THEN [ok |-> FALSE, err |-> "GITHUB_REPOSITORY not set"]
  ELSE [ok |-> TRUE, err |-> ""]

\* ----------------------------------------------------------------- get_file
get_file(resp) ==
  IF resp.status # 200
  THEN [ok |-> FALSE, content |-> Absent, sha |-> NoSha]
  ELSE [ok |-> TRUE, content |-> resp.content, sha |-> resp.sha]

\* LoadState with the loaded list forgotten: data stays [] although the read
\* and the parse succeeded.
LoadState_forget(resp) ==
  LET g == get_file(resp)
      j == json_loads(g.content)
  IN IF g.ok /\ j.ok THEN [data |-> EmptyList, sha |-> g.sha]
     ELSE [data |-> EmptyList, sha |-> NoSha]

\* main, lines 155-163: any exception of get_file or json.loads leaves
\* data = [] and sha = None.
LoadState(resp) ==
  LET g == get_file(resp)
      j == json_loads(g.content)
  IN IF g.ok /\ j.ok THEN [data |-> j.val, sha |-> g.sha]
     ELSE [data |-> EmptyList, sha |-> NoSha]

\* -------------------------------------------------------------- update_file
\* update_file without the check of the status
update_file_unchecked(status) == TRUE

\* raises RuntimeError unless the status is 200 or 201
update_file(status) == status \in {200, 201}

\* the create request without the check of the status
create_file_unchecked(status) == TRUE

\* main, lines 202-204: the create request raises on the same condition
create_file(status) == status \in {200, 201}

\* ---------------------------------------------------- fetch_cvmfs_timestamp
\* A body line: its first character and the rest of it after strip().
CLine == [head |-> "C", rest |-> Junk]
TLine(v) == [head |-> "T", rest |-> v]

RECURSIVE FirstT(_, _)
FirstT(lines, i) ==
  IF i > Len(lines) THEN 0
  ELSE IF lines[i].head = "T" THEN i ELSE FirstT(lines, i + 1)

fetch_cvmfs_timestamp(resp) ==
  IF resp.status # 200
  THEN [ok |-> FALSE, val |-> Junk, err |-> "Failed to fetch cvmfs timestamp"]
  ELSE LET i == FirstT(resp.lines, 1)
       IN IF i = 0
          THEN [ok |-> FALSE, val |-> Junk, err |-> "No line starting with 'T' found"]
          ELSE [ok |-> TRUE, val |-> resp.lines[i].rest, err |-> ""]

\* ----------------------------------------------- fetch_all_cvmfs_timestamps
\* the loop over host_bases left at the first host that fails
RECURSIVE FetchLoop_abort(_, _, _)
FetchLoop_abort(i, results, resps) ==
  IF i > Len(host_bases) THEN results
  ELSE LET r == fetch_cvmfs_timestamp(resps[i])
       IN IF r.ok
          THEN FetchLoop_abort(i + 1, Put(results, host_name(host_bases[i]), r.val), resps)
          ELSE results

\* resps[i] is the response of host_bases[i] to this pass's request.
RECURSIVE FetchLoop(_, _, _)
FetchLoop(i, results, resps) ==
  IF i > Len(host_bases) THEN results
  ELSE LET r == fetch_cvmfs_timestamp(resps[i])
       IN FetchLoop(i + 1,
                    IF r.ok THEN Put(results, host_name(host_bases[i]), r.val)
                    ELSE results,
                    resps)

fetch_all_cvmfs_timestamps(resps) == FetchLoop(1, EmptyDict, resps)

\* The body of the loop of lines 129-138 with the hosts taken in the order
\* given: the i-th host polled, or the i-th response to arrive, is order[i].
RECURSIVE FetchPerm(_, _, _, _)
FetchPerm(order, i, results, resps) ==
  IF i > Len(host_bases) THEN results
  ELSE LET r == fetch_cvmfs_timestamp(resps[order[i]])
       IN FetchPerm(order, i + 1,
                    IF r.ok THEN Put(results, host_name(host_bases[order[i]]), r.val)
                    ELSE results,
                    resps)

\* What the fleet answers to one fetch_all_cvmfs_timestamps call: every host
\* down, or a mixed fleet with one host down, one marker without a T line,
\* one marker whose T line carries no digits, and the other hosts up.
Down == [status |-> 500, lines |-> << >>]
Up(v) == [status |-> 200, lines |-> <<CLine, TLine(v)>>]

FleetResponses ==
  { [i \in DOMAIN host_bases |-> Down],
    [i \in DOMAIN host_bases |->
       CASE i = 1 -> Down
         [] i = 2 -> [status |-> 200, lines |-> <<CLine>>]
         [] i = 3 -> Up(Junk)
         [] OTHER -> Up(Digits(0))] }

\* number of hosts whose fetch succeeded
OkCount(resps) == Cardinality({ i \in DOMAIN host_bases : fetch_cvmfs_timestamp(resps[i]).ok })

\* ------------------------------------------------------------------ plot_lag
SecondsPerHour == 3600

\* (fetched_ts - cur_ts) // 3600: the hours rounded down
lag_hours_floordiv(fetched_ts, cur_ts) ==
  [whole |-> (fetched_ts - cur_ts) \div SecondsPerHour, rem |-> 0]

\* (fetched_ts - cur_ts) / 3600 of line 76: the quotient whole + rem / 3600,
\* with 0 <= rem < 3600
lag_hours(fetched_ts, cur_ts) ==
  [whole |-> (fetched_ts - cur_ts) \div SecondsPerHour,
   rem |-> (fetched_ts - cur_ts) % SecondsPerHour]

\* Lines 70-80: the key of a host is created before its value is parsed; a
\* value that parses appends the pair <<cur_ts, lag_hours>> to its series.
RECURSIVE HostLoop(_, _, _)
HostLoop(hosts, cur_ts, hd) ==
  IF DOMAIN hosts = {} THEN hd
  ELSE LET h == CHOOSE x \in DOMAIN hosts : TRUE
           old == IF h \in DOMAIN hd THEN hd[h] ELSE << >>
           f == int(hosts[h])
           new == IF f.ok THEN Append(old, <<cur_ts, lag_hours(f.val, cur_ts)>>) ELSE old
       IN HostLoop([x \in (DOMAIN hosts) \ {h} |-> hosts[x]], cur_ts, Put(hd, h, new))

\* Lines 59-80: the host_data built from the entries, or the ValueError of
\* int(entry['timestamp']) at line 67.
RECURSIVE EntryLoop(_, _, _, _)
EntryLoop(items, i, fqrn, hd) ==
  IF i > Len(items) THEN [ok |-> TRUE, host_data |-> hd]
  ELSE IF fqrn \notin DOMAIN items[i].fqrns THEN EntryLoop(items, i + 1, fqrn, hd)
  ELSE LET c == int(items[i].timestamp)
       IN IF ~c.ok THEN [ok |-> FALSE, host_data |-> hd]
          ELSE EntryLoop(items, i + 1, fqrn, HostLoop(items[i].fqrns[fqrn], c.val, hd))

\* the figure drawn and saved whatever host_data holds
Render_always(host_data) == TRUE

\* if host_data: of line 82, true of a dict with a key
Render(host_data) == DOMAIN host_data # {}

\* Lines 82-102: the figure is saved, or the message is printed.
plot_lag(data, fqrn) ==
  LET r == EntryLoop(data.items, 1, fqrn, EmptyDict)
  IN [ok |-> r.ok,
      host_data |-> r.host_data,
      rendered |-> r.ok /\ Render(r.host_data),
      msg |-> IF r.ok /\ ~Render(r.host_data)
              THEN "No valid timestamp pairs found for plotting" ELSE ""]

\* ---------------------------------------------------------------- state
VARIABLES
  store,      \* the stored file state.json on branch "state"
  version,    \* its version token (blob sha); changes on every commit
  now,        \* the latest reading of the wall clock
  pc,         \* per pass: where main is
  data,       \* per pass: main's data
  sha,        \* per pass: main's sha (NoSha is None)
  fqrn_data,  \* per pass: main's fqrn_data
  err,        \* per pass: message of the exception that ended it
  rd,         \* per pass: status and content kind of the response to its read
  readRec,    \* per pass: the entries of the record it read
  fetched,    \* per pass: whether any mirror fetch succeeded
  wreq,       \* per pass: the write request it issued
  wres,       \* per pass: status the store answered to that request
  sampled,    \* per pass: the fqrns of which some mirror fetch succeeded
  t0,         \* per pass: the wall clock when main began, until the entry is built
  arg,        \* the argument of a function applied on its own
  res         \* the result of that application

vars == <<store, version, now, pc, data, sha, fqrn_data, err, rd, readRec,
          fetched, wreq, wres, sampled, t0, arg, res>>

\* nothing is applied on its own
NoCall == [kind |-> "none"]

NoRead == [status |-> 0, kind |-> "none"]

\* the kind of content a read response carries
ContentKind(resp) ==
  IF resp.status # 200 THEN "none"
  ELSE IF resp.content.kind = "json" THEN resp.content.val.kind
  ELSE resp.content.kind

Init ==
  /\ store \in InitStores
  /\ version = IF store.kind = "absent" THEN 0 ELSE 1
  /\ now = 0
  /\ pc = [p \in Passes |-> "start"]
  /\ data = [p \in Passes |-> EmptyList]
  /\ sha = [p \in Passes |-> NoSha]
  /\ fqrn_data = [p \in Passes |-> EmptyDict]
  /\ err = [p \in Passes |-> ""]
  /\ rd = [p \in Passes |-> NoRead]
  /\ readRec = [p \in Passes |-> << >>]
  /\ fetched = [p \in Passes |-> FALSE]
  /\ wreq = [p \in Passes |-> "none"]
  /\ wres = [p \in Passes |-> 0]
  /\ sampled = [p \in Passes |-> {}]
  /\ t0 = [p \in Passes |-> 0]
  /\ arg = NoCall
  /\ res = NoCall

\* The process of pass p ends: normally ("done", exit status 0) or by an
\* uncaught exception ("failed", exit status 1); its memory is gone.
Exit(p, how, msg) ==
  /\ pc' = [pc EXCEPT ![p] = how]
  /\ err' = [err EXCEPT ![p] = msg]
  /\ data' = [data EXCEPT ![p] = EmptyList]
  /\ sha' = [sha EXCEPT ![p] = NoSha]
  /\ fqrn_data' = [fqrn_data EXCEPT ![p] = EmptyDict]
  /\ readRec' = [readRec EXCEPT ![p] = << >>]
  /\ sampled' = [sampled EXCEPT ![p] = {}]
  /\ t0' = [t0 EXCEPT ![p] = 0]

ExitCode(p) == IF pc[p] = "failed" THEN 1 ELSE 0

Ended(p) == pc[p] \in {"done", "failed"}

\* A reading of the wall clock: later than the one before it, up to MaxClock.
ClockReading == IF now < MaxClock THEN now + 1 ELSE now

\* main, lines 146-163: configuration, then the read of the stored record
ReadState(p) ==
  /\ pc[p] = "start"
  /\ \A q \in Passes : q < p => pc[q] # "start"
  /\ \E env \in EnvSettings :
       IF get_repo_info(env).ok /\ env.GITHUB_TOKEN # ""
       THEN \E resp \in GetResponses(store, version) :
              LET r == LoadState(resp)
              IN /\ data' = [data EXCEPT ![p] = r.data]
                 /\ sha' = [sha EXCEPT ![p] = r.sha]
                 /\ rd' = [rd EXCEPT ![p] =
                             [status |-> resp.status, kind |-> ContentKind(resp)]]
                 /\ readRec' = [readRec EXCEPT ![p] = Items(resp.content)]
                 /\ pc' = [pc EXCEPT ![p] = "sample"]
                 /\ t0' = [t0 EXCEPT ![p] = now]
                 /\ UNCHANGED <<fqrn_data, err, sampled>>
       ELSE /\ Exit(p, "failed", IF get_repo_info(env).ok THEN "GITHUB_TOKEN not set"
                                 ELSE get_repo_info(env).err)
            /\ UNCHANGED rd
  /\ UNCHANGED <<store, version, now, fetched, wreq, wres, arg, res>>

\* the loop over fqrns without the test of line 169: an fqrn is entered even
\* when no mirror answered
RECURSIVE FqrnLoop_keepempty(_, _, _)
FqrnLoop_keepempty(i, fd, resps) ==
  IF i > Len(fqrns) THEN fd
  ELSE FqrnLoop_keepempty(i + 1,
                          Put(fd, fqrns[i], fetch_all_cvmfs_timestamps(resps[i])),
                          resps)

\* main, lines 166-172: the loop over fqrns; resps[i] is what the fleet
\* answers for fqrns[i]
RECURSIVE FqrnLoop(_, _, _)
FqrnLoop(i, fd, resps) ==
  IF i > Len(fqrns) THEN fd
  ELSE LET host_timestamps == fetch_all_cvmfs_timestamps(resps[i])
       IN FqrnLoop(i + 1,
                   IF DOMAIN host_timestamps # {} THEN Put(fd, fqrns[i], host_timestamps)
                   ELSE fd,
                   resps)

\* the check of line 174 left out
NoData_never(fd) == FALSE

\* main, line 174: if not fqrn_data
NoData(fd) == DOMAIN fd = {}

\* main, lines 178-182
NewEntry(t, fd) == [timestamp |-> str(t), fqrns |-> fd]

\* data = [new_entry] in place of data.append(new_entry)
AppendEntry_overwrite(d, new_entry) ==
  IF d.kind = "list"
  THEN [ok |-> TRUE, data |-> [d EXCEPT !.items = <<new_entry>>]]
  ELSE [ok |-> FALSE, data |-> d]

\* data.insert(0, new_entry) in place of data.append(new_entry)
AppendEntry_prepend(d, new_entry) ==
  IF d.kind = "list"
  THEN [ok |-> TRUE, data |-> [d EXCEPT !.items = <<new_entry>> \o @]]
  ELSE [ok |-> FALSE, data |-> d]

\* main, line 185: data.append(new_entry); only a list has append
AppendEntry(d, new_entry) ==
  IF d.kind = "list"
  THEN [ok |-> TRUE, data |-> [d EXCEPT !.items = Append(@, new_entry)]]
  ELSE [ok |-> FALSE, data |-> d]

\* main, lines 166-172 for every answer of the fleet: the fqrn_data built,
\* whether any mirror fetch succeeded, and the fqrns of which one did
SampleOutcomes ==
  { [fd |-> FqrnLoop(1, EmptyDict, resps),
     fetched |-> \E i \in DOMAIN fqrns : OkCount(resps[i]) > 0,
     sampled |-> { fqrns[i] : i \in { j \in DOMAIN fqrns : OkCount(resps[j]) > 0 } }] :
    resps \in [DOMAIN fqrns -> FleetResponses] }

\* main, lines 165-188: sampling, the new entry, the append
SampleAndBuild(p) ==
  /\ pc[p] = "sample"
  /\ \E o \in SampleOutcomes :
       /\ fetched' = [fetched EXCEPT ![p] = o.fetched]
       /\ IF NoData(o.fd)
          THEN /\ Exit(p, "failed", "Failed to fetch timestamps from any FQRN")
               /\ now' = now
          ELSE LET t == ClockReading
                   a == AppendEntry(data[p], NewEntry(t, o.fd))
               IN /\ now' = t
                  /\ IF a.ok
                     THEN /\ data' = [data EXCEPT ![p] = a.data]
                          /\ fqrn_data' = [fqrn_data EXCEPT ![p] = o.fd]
                          /\ pc' = [pc EXCEPT ![p] = "write"]
                          /\ sampled' = [sampled EXCEPT ![p] = o.sampled]
                          /\ t0' = [t0 EXCEPT ![p] = 0]
                          /\ UNCHANGED <<sha, err, readRec>>
                     ELSE Exit(p, "failed", "AttributeError")
  /\ UNCHANGED <<store, version, rd, wreq, wres, arg, res>>

\* main, line 191: if sha
UseUpdate(token) == token # NoSha

\* main, lines 190-205: the request and the store's answer in one step
WriteState(p) ==
  /\ pc[p] = "write"
  /\ LET token == IF UseUpdate(sha[p]) THEN sha[p] ELSE NoSha
     IN \E r \in StorePut(store, version, json_dumps(data[p]), token) :
          /\ store' = r.store
          /\ version' = r.version
          /\ wreq' = [wreq EXCEPT ![p] = IF UseUpdate(sha[p]) THEN "update" ELSE "create"]
          /\ wres' = [wres EXCEPT ![p] = r.status]
          /\ IF UseUpdate(sha[p])
             THEN IF update_file(r.status)
                  THEN /\ pc' = [pc EXCEPT ![p] = "plot"]
                       /\ UNCHANGED <<data, sha, fqrn_data, err, readRec, sampled, t0>>
                  ELSE Exit(p, "failed", "Failed to update file")
             ELSE IF create_file(r.status)
                  THEN /\ pc' = [pc EXCEPT ![p] = "plot"]
                       /\ UNCHANGED <<data, sha, fqrn_data, err, readRec, sampled, t0>>
                  ELSE Exit(p, "failed", "Failed to create file")
  /\ UNCHANGED <<now, rd, fetched, arg, res>>

\* main, lines 208-209: plot_lag for every fqrn, in order
RECURSIVE PlotLoop(_, _)
PlotLoop(d, i) ==
  IF i > Len(fqrns) THEN TRUE
  ELSE IF plot_lag(d, fqrns[i]).ok THEN PlotLoop(d, i + 1) ELSE FALSE

Plot(p) ==
  /\ pc[p] = "plot"
  /\ IF PlotLoop(data[p], 1) THEN Exit(p, "done", "") ELSE Exit(p, "failed", "ValueError")
  /\ UNCHANGED <<store, version, now, rd, fetched, wreq, wres, arg, res>>

Next ==
  \/ \E p \in Passes : ReadState(p)
  \/ \E p \in Passes : SampleAndBuild(p)
  \/ \E p \in Passes : WriteState(p)
  \/ \E p \in Passes : Plot(p)

Spec == Init /\ [][Next]_vars

\* ------------------------------------------- functions applied on their own
mainVars == <<store, version, now, pc, data, sha, fqrn_data, err, rd, readRec,
              fetched, wreq, wres, sampled, t0>>

\* no pass runs
MainIdle ==
  /\ store = Absent
  /\ version = 0
  /\ now = 0
  /\ pc = [p \in Passes |-> "start"]
  /\ data = [p \in Passes |-> EmptyList]
  /\ sha = [p \in Passes |-> NoSha]
  /\ fqrn_data = [p \in Passes |-> EmptyDict]
  /\ err = [p \in Passes |-> ""]
  /\ rd = [p \in Passes |-> NoRead]
  /\ readRec = [p \in Passes |-> << >>]
  /\ fetched = [p \in Passes |-> FALSE]
  /\ wreq = [p \in Passes |-> "none"]
  /\ wres = [p \in Passes |-> 0]
  /\ sampled = [p \in Passes |-> {}]
  /\ t0 = [p \in Passes |-> 0]

\* fetch_cvmfs_timestamp on the responses of a host: a status and a body of up
\* to MaxLines lines
Bodies ==
  UNION { [1..n -> {CLine, TLine(Digits(0)), TLine(Digits(1700000000)), TLine(Junk)}] :
          n \in 0..MaxLines }

FetchInit ==
  /\ MainIdle
  /\ arg \in { [kind |-> "fetch", resp |-> [status |-> st, lines |-> b]] :
               st \in {200, 404, 500}, b \in Bodies }
  /\ res = NoCall

CallFetch ==
  /\ arg.kind = "fetch" /\ res = NoCall
  /\ res' = [kind |-> "fetch", out |-> fetch_cvmfs_timestamp(arg.resp)]
  /\ UNCHANGED <<mainVars, arg>>

SpecFetch == FetchInit /\ [][CallFetch]_vars

\* fetch_all_cvmfs_timestamps and the loop of main over fqrns, on every
\* combination of answers of the hosts for the first fqrn
NoTLine == [status |-> 200, lines |-> <<CLine>>]

AllFleets == [DOMAIN host_bases -> {Down, NoTLine, Up(Digits(0)), Up(Junk)}]

FleetInit ==
  /\ MainIdle
  /\ arg \in { [kind |-> "fleet", resps |-> <<a, b>>] : a \in AllFleets, b \in FleetResponses }
  /\ res = NoCall

CallFleet ==
  /\ arg.kind = "fleet" /\ res = NoCall
  /\ res' = [kind |-> "fleet",
             host_timestamps |-> fetch_all_cvmfs_timestamps(arg.resps[1]),
             fqrn_data |-> FqrnLoop(1, EmptyDict, arg.resps)]
  /\ UNCHANGED <<mainVars, arg>>

SpecFleet == FleetInit /\ [][CallFleet]_vars

\* the hosts polled in any order
OrderInit ==
  /\ MainIdle
  /\ arg \in { [kind |-> "order", resps |-> a] :
               a \in [DOMAIN host_bases -> {Down, Up(Digits(0)), Up(Junk)}] }
  /\ res = NoCall

CallInOrder ==
  /\ arg.kind = "order" /\ res = NoCall
  /\ \E order \in Permutations(DOMAIN host_bases) :
       res' = [kind |-> "order",
               permuted |-> \E i \in DOMAIN host_bases : order[i] # i,
               host_timestamps |-> FetchPerm(order, 1, EmptyDict, arg.resps)]
  /\ UNCHANGED <<mainVars, arg>>

SpecOrder == OrderInit /\ [][CallInOrder]_vars

\* plot_lag on records of up to MaxRecLen entries
LagHosts == {"klei.nikhef.nl", "cvmfs-s1bnl.opensciencegrid.org"}

LagMaps ==
  UNION { [hs -> {Digits(1700000000), Junk}] : hs \in (SUBSET LagHosts) \ {{}} }

LagEntries ==
  { [timestamp |-> t, fqrns |-> f] :
      t \in {Digits(1700003600), Digits(1700001800), Junk},
      f \in { "eic" :> m : m \in LagMaps }
              \cup { "singularity" :> ("klei.nikhef.nl" :> Digits(1700000000)) }
              \cup { ("eic" :> m) @@ ("singularity" :> ("klei.nikhef.nl" :> Digits(1700000000))) :
                     m \in LagMaps } }

LagInit ==
  /\ MainIdle
  /\ arg \in { [kind |-> "lag", data |-> [kind |-> "list", items |-> it], fqrn |-> fqrns[i]] :
               it \in UNION { [1..n -> LagEntries] : n \in 0..MaxRecLen },
               i \in DOMAIN fqrns }
  /\ res = NoCall

CallLag ==
  /\ arg.kind = "lag" /\ res = NoCall
  /\ res' = [kind |-> "lag", out |-> plot_lag(arg.data, arg.fqrn)]
  /\ UNCHANGED <<mainVars, arg>>

SpecLag == LagInit /\ [][CallLag]_vars

\* ------------------------------------------------------------ properties
Committed(p) == wres[p] \in {200, 201}

NoDataCollected == "Failed to fetch timestamps from any FQRN"

\* the step in which pass p gets the answer to its write request
WriteStep(p) == pc[p] = "write" /\ pc'[p] # "write"

\* C1: a pass whose version token is stale when it writes (the stored version
\* changed after its read, by another pass's commit) has its update refused,
\* ends as failed, and the stored record and version are as before the attempt.
C1_StaleUpdateFails ==
  [][\A q \in Passes :
       (WriteStep(q) /\ UseUpdate(sha[q]) /\ sha[q] # version)
         => (pc'[q] = "failed" /\ store' = store /\ version' = version)]_vars

\* Two passes read the same version, one committed, the other got the conflict.
C1_Witness ==
  \E p, q \in Passes :
    /\ p # q
    /\ wreq[p] = "update" /\ wres[p] = 200
    /\ wreq[q] = "update" /\ wres[q] = 409
    /\ pc[q] = "failed" /\ err[q] = "Failed to update file"

\* C2: every entry of the stored record stays in it, unmodified and at its
\* index, whatever step any pass takes: the record before a step is a prefix
\* of the record after it.
C2_EntriesKept == [][IsPrefix(Items(store), Items(store'))]_vars

\* One pass committed an entry; another, whose read of the store had failed,
\* then sent a create request for the existing record and was refused.
C2_Witness ==
  \E p, q \in Passes :
    /\ p # q
    /\ Committed(p)
    /\ rd[q].status = 500 /\ wreq[q] = "create" /\ wres[q] = 422
    /\ Len(Items(store)) >= 2

\* C3: when a pass's write succeeds, the stored record is the record the pass
\* read with exactly one entry more, the pass's new entry, at the end.
C3_AppendOne ==
  [][\A p \in Passes :
       (WriteStep(p) /\ pc'[p] = "plot")
         => LET R == readRec[p]
                R2 == Items(store')
            IN /\ Len(R2) = Len(R) + 1
               /\ SubSeq(R2, 1, Len(R)) = R
               /\ R2[Len(R2)].fqrns = fqrn_data[p]]_vars

\* A pass that read a non-empty record has written it back.
C3_Witness ==
  \E p \in Passes :
    /\ pc[p] = "plot" /\ wres[p] = 200
    /\ Len(readRec[p]) >= 1
    /\ Items(store) = data[p].items

\* C4: the length of the stored record never decreases from a state to the next.
C4_LengthNeverDecreases == [][Len(Items(store')) >= Len(Items(store))]_vars

\* Two passes committed one after the other and a record of two or more
\* entries had been read by the later one.
C4_Witness ==
  \E p, q \in Passes :
    /\ p # q
    /\ Committed(p) /\ Committed(q)
    /\ pc[q] = "plot" /\ Len(readRec[q]) >= 2
    /\ Len(Items(store)) = Len(readRec[q]) + 1

\* C5: a pass that ends as failed has committed no write.
C5_FailedPassCommitsNothing ==
  \A p \in Passes : pc[p] = "failed" => ~Committed(p)

\* C6: a pass in which every mirror of every repository failed ends as failed
\* with NoDataCollected and has sent no write request to the store.
C6_NoDataNoWrite ==
  \A p \in Passes :
    (pc[p] \notin {"start", "sample"} /\ ~fetched[p])
      => /\ pc[p] = "failed"
         /\ err[p] = NoDataCollected
         /\ wreq[p] = "none"
         /\ wres[p] = 0

\* A pass read an existing record, sampled nothing and failed.
C6_Witness ==
  \E p \in Passes :
    /\ rd[p].status = 200 /\ rd[p].kind = "list"
    /\ ~fetched[p]
    /\ pc[p] = "failed" /\ err[p] = NoDataCollected

\* C7: a pass that read a stored record which does not parse as a list of
\* entries sends no write request and, once ended, has failed.
C7_MalformedRecordFatal ==
  \A p \in Passes :
    rd[p].kind \in {"garbage", "dict"}
      => /\ wreq[p] = "none"
         /\ pc[p] # "done"

\* C8: a pass whose read of the store failed for another reason than
\* not-found has ended as failed: it does not go on to sample and write.
C8_ReadFailureFatal ==
  \A p \in Passes :
    rd[p].status \notin {0, 200, 404} => pc[p] = "failed"

\* C9: a pass whose read returned not-found and that sampled a mirror holds the
\* one-entry record and no version token, and sends a create request; and a
\* create request is sent only by a pass whose read returned not-found.
C9_CreateIffNotFound ==
  \A p \in Passes :
    /\ (rd[p].status = 404 /\ pc[p] = "write")
         => (sha[p] = NoSha /\ Len(data[p].items) = 1)
    /\ rd[p].status = 404 => wreq[p] # "update"
    /\ wreq[p] = "create" => rd[p].status = 404

\* C10: an ended pass has exit status non-zero exactly if it failed with
\* NoDataCollected or with a store error on read or write; so a pass whose
\* read and write succeeded and that sampled a mirror has exit status 0.
StoreError(p) ==
  \/ err[p] \in {"Failed to update file", "Failed to create file"}
  \/ rd[p].status \notin {0, 200, 404}
  \/ rd[p].kind \in {"garbage", "dict"}

C10_ExitStatus ==
  \A p \in Passes :
    Ended(p) => /\ (ExitCode(p) # 0) <=> (err[p] = NoDataCollected \/ StoreError(p))
                /\ (rd[p].status \in {200, 404} /\ Committed(p) /\ fetched[p])
                     => ExitCode(p) = 0

\* the entry a pass appended to its data
LastEntry(p) == data[p].items[Len(data[p].items)]

\* C12: the sample time of the entry a pass builds is the wall clock as it was
\* when the pass began, before its first fetch.
C12_SampleTimeIsStartTime ==
  [][\A p \in Passes :
       (pc[p] = "sample" /\ pc'[p] = "write")
         => data'[p].items[Len(data'[p].items)].timestamp = str(t0[p])]_vars

\* C18: the entry a pass submits has a non-empty fqrns mapping, every fqrn in
\* it maps to a non-empty mapping of mirrors, and the fqrns in it are exactly
\* those of which some mirror was fetched in the pass.
C18_EntryWellFormed ==
  \A p \in Passes :
    pc[p] \in {"write", "plot"}
      => /\ DOMAIN LastEntry(p).fqrns # {}
         /\ \A r \in DOMAIN LastEntry(p).fqrns : DOMAIN LastEntry(p).fqrns[r] # {}
         /\ DOMAIN LastEntry(p).fqrns = sampled[p]

\* A pass submits an entry without the first fqrn, all of whose mirrors failed.
C18_Witness ==
  \E p \in Passes :
    /\ pc[p] = "write"
    /\ sampled[p] = {"eic"}
    /\ DOMAIN LastEntry(p).fqrns = {"eic"}

\* the plotting step of a pass ran
PlotRan(p) == pc[p] = "done" \/ err[p] = "ValueError"

\* C19: plot_lag runs in a pass only after the pass's write was committed, and
\* on the record read plus the new entry; a pass whose write was refused or
\* failed ends as failed at the write, without plotting.
C19_PlotAfterCommit ==
  \A p \in Passes :
    /\ (pc[p] = "plot" \/ PlotRan(p)) => Committed(p)
    /\ pc[p] = "plot"
         => /\ Len(data[p].items) = Len(readRec[p]) + 1
            /\ SubSeq(data[p].items, 1, Len(readRec[p])) = readRec[p]
            /\ LastEntry(p).fqrns = fqrn_data[p]
    /\ (wreq[p] # "none" /\ ~Committed(p))
         => /\ pc[p] = "failed"
            /\ err[p] \in {"Failed to update file", "Failed to create file"}

\* One pass is about to plot after its commit; another ended at its refused write.
C19_Witness ==
  \E p, q \in Passes :
    /\ pc[p] = "plot" /\ Committed(p)
    /\ wreq[q] = "create" /\ wres[q] = 422 /\ pc[q] = "failed"

\* a host answers with status 200 and a body that has a line starting with T
Answers(resp) == resp.status = 200 /\ \E j \in DOMAIN resp.lines : resp.lines[j].head = "T"

\* C11: of n hosts of which k fail, fetch_all_cvmfs_timestamps returns the
\* mapping with the n - k hosts that answered, under their names; when all
\* fail it is empty and the fqrn is not in the fqrn_data of the pass.
C11_PartialFleet ==
  res.kind = "fleet"
    => LET okHosts == { i \in DOMAIN host_bases : Answers(arg.resps[1][i]) }
           n == Len(host_bases)
           k == n - Cardinality(okHosts)
       IN /\ DOMAIN res.host_timestamps = { host_bases[i].host : i \in okHosts }
          /\ Cardinality(DOMAIN res.host_timestamps) = n - k
          /\ k = n => /\ res.host_timestamps = EmptyDict
                      /\ fqrns[1] \notin DOMAIN res.fqrn_data

\* The first and the last host failed, the four between them answered.
C11_Witness ==
  /\ res.kind = "fleet"
  /\ ~Answers(arg.resps[1][1]) /\ ~Answers(arg.resps[1][6])
  /\ Cardinality(DOMAIN res.host_timestamps) = 4

\* C13: fetch_cvmfs_timestamp fails when the status is not 200, fails when no
\* line of the body starts with T, and otherwise returns what follows the T of
\* the first such line, which is an integer.
C13_FetchOutcomes ==
  res.kind = "fetch"
    => LET r == arg.resp
           o == res.out
       IN /\ r.status # 200 => (~o.ok /\ o.err = "Failed to fetch cvmfs timestamp")
          /\ (r.status = 200 /\ ~Answers(r))
               => (~o.ok /\ o.err = "No line starting with 'T' found")
          /\ Answers(r)
               => /\ o.ok
                  /\ o.val.isint
                  /\ \E j \in DOMAIN r.lines :
                       /\ r.lines[j].head = "T" /\ o.val = r.lines[j].rest
                       /\ \A h \in 1..(j - 1) : r.lines[h].head # "T"

\* C17: whatever the order in which the hosts are polled or answer, the
\* mapping is the one fetch_all_cvmfs_timestamps returns.
C17_OrderIndependent ==
  res.kind = "order" => res.host_timestamps = fetch_all_cvmfs_timestamps(arg.resps)

\* Hosts with different answers were polled in another order than the list's.
C17_Witness ==
  /\ res.kind = "order" /\ res.permuted
  /\ \E g, h \in DOMAIN res.host_timestamps : res.host_timestamps[g] # res.host_timestamps[h]

\* the positions of the entries that hold fqrn and an integer value for host m
Parsed(items, fqrn, m) ==
  { i \in DOMAIN items :
      /\ fqrn \in DOMAIN items[i].fqrns
      /\ m \in DOMAIN items[i].fqrns[fqrn]
      /\ items[i].fqrns[fqrn][m].isint }

\* the hosts named under fqrn in some entry
Named(items, fqrn) ==
  UNION { DOMAIN items[i].fqrns[fqrn] : i \in { j \in DOMAIN items : fqrn \in DOMAIN items[j].fqrns } }

\* C14: on a record whose sample times for the fqrn are integers, the series of host m is,
\* in record order, one point per entry that holds the fqrn and an integer
\* value for m: the sample time and (value - sample time) / 3600 hours.  A
\* value that is not an integer adds no point and fails nothing.
C14_LagSeries ==
  (/\ res.kind = "lag"
   /\ \A i \in DOMAIN arg.data.items :
        arg.fqrn \in DOMAIN arg.data.items[i].fqrns => arg.data.items[i].timestamp.isint)
    => LET items == arg.data.items
           hd == res.out.host_data
       IN /\ res.out.ok
          /\ \A m \in Named(items, arg.fqrn) :
               LET ps == Parsed(items, arg.fqrn, m)
                   series == IF m \in DOMAIN hd THEN hd[m] ELSE << >>
               IN /\ Len(series) = Cardinality(ps)
                  /\ \A k \in DOMAIN series :
                       \E i \in ps :
                         /\ Cardinality({ j \in ps : j <= i }) = k
                         /\ series[k][1] = items[i].timestamp.n
                         /\ series[k][2].whole * SecondsPerHour + series[k][2].rem
                              = items[i].fqrns[arg.fqrn][m].n - items[i].timestamp.n
                         /\ series[k][2].rem \in 0..(SecondsPerHour - 1)
          /\ \A m \in DOMAIN hd : m \in Named(items, arg.fqrn)

\* Two entries for eic: in the first a host has no integer value and the
\* other is an hour behind, in the second the first host is half an hour behind.
C14_Witness ==
  /\ res.kind = "lag" /\ arg.fqrn = "eic" /\ res.out.ok
  /\ arg.data.items
       = << [timestamp |-> Digits(1700003600),
             fqrns |-> ("eic" :> ("klei.nikhef.nl" :> Junk
                                  @@ "cvmfs-s1bnl.opensciencegrid.org" :> Digits(1700000000)))],
            [timestamp |-> Digits(1700001800),
             fqrns |-> ("eic" :> ("klei.nikhef.nl" :> Digits(1700000000)))] >>
  /\ res.out.host_data
       = ("klei.nikhef.nl" :> << <<1700001800, [whole |-> -1, rem |-> 1800]>> >>
          @@ "cvmfs-s1bnl.opensciencegrid.org" :> << <<1700003600, [whole |-> -1, rem |-> 0]>> >>)

\* C15: when no entry of the record holds the fqrn, plot_lag builds an empty
\* host_data, prints that there is nothing to plot, raises nothing and saves
\* no figure.
C15_AbsentRepoNoData ==
  (res.kind = "lag" /\ \A i \in DOMAIN arg.data.items : arg.fqrn \notin DOMAIN arg.data.items[i].fqrns)
    => /\ res.out.ok
       /\ res.out.host_data = EmptyDict
       /\ ~res.out.rendered
       /\ res.out.msg = "No valid timestamp pairs found for plotting"

\* A record of entries for eic only, asked for singularity.
C15_Witness ==
  /\ res.kind = "lag" /\ arg.fqrn = "singularity"
  /\ Len(arg.data.items) = 2
  /\ \A i \in DOMAIN arg.data.items : DOMAIN arg.data.items[i].fqrns = {"eic"}
  /\ ~res.out.rendered

\* C20: every host of host_data has a point, and when no point was derived the
\* message is printed and no figure is saved.
C20_NoEmptySeries ==
  (res.kind = "lag" /\ res.out.ok)
    => LET hd == res.out.host_data
       IN /\ \A m \in DOMAIN hd : Len(hd[m]) >= 1
          /\ (\A m \in DOMAIN hd : hd[m] = << >>)
               => /\ ~res.out.rendered
                  /\ res.out.msg = "No valid timestamp pairs found for plotting"

====
